---- MODULE Spec2Model ----
(***************************************************************************)
(* Asynchronous task lifecycle of the ATXP express example backend:        *)
(* POST /api/texts, the detached pollForTaskCompletion loop, the in-memory *)
(* texts array and the stage events the two emit; the hub that broadcasts  *)
(* the events to the GET /api/progress connections; and the atxp-utils     *)
(* functions that resolve and validate the connection string.              *)
(*                                                                         *)
(* Node runs one callback at a time, so the code between two awaits is one *)
(* atomic action of the model.  An await whose continuation reads nothing  *)
(* but the awaiting function's own locals is folded into the step after it. *)
(***************************************************************************)
EXTENDS Integers, Sequences, FiniteSets, TLC

(* ------------------------------ bounds -------------------------------- *)

\* Number of POST /api/texts requests the model lets arrive.
MaxSubmissions == 2

\* Last value of the millisecond clock read by Date.now().
MaxClock == 2

\* Loop bound of pollForTaskCompletion.  server.ts:136 sets it to 120; the
\* model runs the same loop with a small bound (the loop's code does not
\* depend on the value, and the last attempt is reached either way).  With 4
\* a run can emit a progress event (attempt 2) and see a terminal result on
\* an attempt that is not the last (attempt 3).
maxAttempts == 4

\* Number of GET /api/progress connections the model lets arrive.
MaxClients == 2

\* Number of updates the model hands to the hub.
MaxPublishes == 2

\* Number of calls of the atxp-utils functions the model records.
MaxCalls == 2

\* Number of EventSource objects the model lets the frontend create.
MaxSources == 3

\* Number of stage updates the frontend receives between two submissions.
MaxMessages == 2

(* ------------------------------ values -------------------------------- *)

\* JavaScript's undefined, for the string-valued fields and inputs.
Undefined == "<undefined>"

\* !!v for a string-or-undefined value.
Truthy(v) == v # Undefined /\ v # ""

Submissions == 1..MaxSubmissions

\* Request bodies: text missing, empty, blank, and two non-blank texts (one
\* with surrounding blanks).  A text is a sequence of characters.
Bodies ==
  {[hasText |-> FALSE, text |-> <<>>]} \cup
  {[hasText |-> TRUE, text |-> t] :
     t \in {<<>>, <<" ">>, <<"a">>, <<" ", "a", " ">>}}

\* Values of the x-atxp-connection-string header and of the environment
\* variable ATXP_CONNECTION_STRING.
Headers == {Undefined, "", "header-connection"}
EnvValues == {Undefined, "", "env-connection"}

\* Task ids the image service hands out.
TaskIds == {"task-1"}

\* URLs the image service reports, and results of filestore_write.
ImageUrls == {"X"}
FileResults ==
  {[filename |-> "f.png", url |-> "F", fileId |-> Undefined],
   [filename |-> "f.png", url |-> "F", fileId |-> "file-1"]}

\* Outcomes of one image_get_image_async call: it throws (or its result does
\* not parse), or it yields {status, url}.  "pending" stands for every status
\* that is none of completed, failed, processing.
StatusResults ==
  {[throws |-> TRUE, status |-> Undefined, url |-> Undefined]} \cup
  {[throws |-> FALSE, status |-> s, url |-> Undefined] :
     s \in {"pending", "processing", "completed", "failed"}} \cup
  {[throws |-> FALSE, status |-> "completed", url |-> u] : u \in ImageUrls}

(* ------------------------- pure helper functions ---------------------- *)

\* String.prototype.trim on a sequence of characters.
RECURSIVE trim(_)
trim(s) ==
  IF s = <<>> THEN <<>>
  ELSE IF Head(s) = " " THEN trim(Tail(s))
  ELSE IF s[Len(s)] = " " THEN trim(SubSeq(s, 1, Len(s) - 1))
  ELSE s

Digit(d) == <<"0", "1", "2", "3", "4", "5", "6", "7", "8", "9">>[d + 1]

\* Number.prototype.toString (decimal) as a sequence of digit characters.
RECURSIVE toString(_)
toString(n) ==
  IF n < 10 THEN <<Digit(n)>>
  ELSE toString(n \div 10) \o <<Digit(n % 10)>>

\* Correlation ids Date.now().toString() can yield within the clock's range.
RequestIds == {toString(t) : t \in 0..MaxClock}

\* The message of the Error getATXPConnectionString throws.
NotFoundMessage ==
  "ATXP connection string not found. Provide either x-atxp-connection-string header or ATXP_CONNECTION_STRING environment variable"

\* A variant of getATXPConnectionString that looks at the environment
\* variable first.
getATXPConnectionString_EnvFirst(header, envValue) ==
  IF Truthy(envValue)
  THEN [throws |-> FALSE, value |-> envValue,
        thrown |-> [isError |-> FALSE, message |-> Undefined]]
  ELSE IF Truthy(header)
  THEN [throws |-> FALSE, value |-> header,
        thrown |-> [isError |-> FALSE, message |-> Undefined]]
  ELSE [throws |-> TRUE, value |-> Undefined,
        thrown |-> [isError |-> TRUE, message |-> NotFoundMessage]]

\* getATXPConnectionString: the header if truthy, else the environment
\* variable if truthy, else it throws an Error (throws |-> TRUE, with the
\* thrown value).
getATXPConnectionString(header, envValue) ==
  IF Truthy(header)
  THEN [throws |-> FALSE, value |-> header,
        thrown |-> [isError |-> FALSE, message |-> Undefined]]
  ELSE IF Truthy(envValue)
  THEN [throws |-> FALSE, value |-> envValue,
        thrown |-> [isError |-> FALSE, message |-> Undefined]]
  ELSE [throws |-> TRUE, value |-> Undefined,
        thrown |-> [isError |-> TRUE, message |-> NotFoundMessage]]

\* texts.findIndex(text => text.id === textId), 1-based; 0 for JavaScript's -1.
RECURSIVE findIndexFrom(_, _, _)
findIndexFrom(ts, textId, k) ==
  IF k > Len(ts) THEN 0
  ELSE IF ts[k].id = textId THEN k
  ELSE findIndexFrom(ts, textId, k + 1)

findIndex(ts, textId) == findIndexFrom(ts, textId, 1)

(* ------------------------------ state --------------------------------- *)

VARIABLES
  env,     \* process.env.ATXP_CONNECTION_STRING
  now,     \* the value Date.now() returns
  texts,   \* the in-memory array of Text records
  req,     \* per request: the POST /api/texts handler's position and locals
  poll,    \* per request: the pollForTaskCompletion run it started
  events,  \* per correlation id: the stage events emitted, in order
  clients, \* the SSE clients registered with the hub, in registration order
  conn,    \* per GET /api/progress connection: its state and what was written
  published, \* the updates handed to the hub, each with the clients it met
  calls,   \* the calls of the atxp-utils functions made, with their results
  seen,    \* the outcomes of the status queries of an observed poller
  app      \* the frontend's App component: its SSE connections and stages

vars ==
  <<env, now, texts, req, poll, events, clients, conn, published, calls, seen,
    app>>

\* The GET /api/progress connections, and one that has not arrived: state is
\* "none", then "open", then possibly "broken" (the peer is gone, the close
\* event has not been delivered yet), then "closed".  received is what was
\* written to the response, removals the number of removeSSEClient calls made
\* for it.
Connections == 1..MaxClients
NoConn == [state |-> "none", received |-> <<>>, removals |-> 0]

\* JavaScript's null, for the current stage.
Null == [stage |-> "<null>", status |-> "<null>"]

\* The App component before it is mounted.  phase is "initial", "mounted" or
\* "unmounted"; sources holds the readyState ("open" or "closed") of every
\* EventSource created; ref is eventSourceRef.current, the position of an
\* EventSource in sources or 0 for null; reconnectTimers and clearTimers
\* count the pending 5 s and 3 s timeouts.
NoApp ==
  [phase |-> "initial", sources |-> <<>>, ref |-> 0, reconnectTimers |-> 0,
   currentStage |-> Null, stageHistory |-> <<>>, clearTimers |-> 0]

\* The request of a handler that is not running (not yet entered, or returned
\* after an accepted submission).
NoBody == [hasText |-> FALSE, text |-> <<>>]

\* A handler that has not been entered.  ref is the position in texts of the
\* object newText once the handler has pushed it (0 before), res the status
\* code of the response (0 while there is none).
IdleReq ==
  [pc |-> "idle", body |-> NoBody, header |-> Undefined,
   requestId |-> <<>>, textId |-> 0,
   newText |-> [id |-> 0, text |-> <<>>, timestamp |-> 0, imageUrl |-> "",
                fileName |-> "", fileId |-> Undefined, status |-> "pending",
                taskId |-> Undefined],
   ref |-> 0, res |-> 0, error |-> Undefined]

\* No pollForTaskCompletion run.  status, url and filestoreError are the
\* locals of the loop's last iteration: they are set when the run observes a
\* terminal result (and when the filestore step throws) and keep that value
\* once the run is over.
NoPoll ==
  [pc |-> "none", attempts |-> 0, completed |-> FALSE, taskId |-> Undefined,
   textId |-> 0, requestId |-> <<>>, textIndex |-> 0,
   status |-> Undefined, url |-> Undefined, filestoreError |-> FALSE]

Init ==
  /\ env \in EnvValues
  /\ now = 1
  /\ texts = <<>>
  /\ req = [i \in Submissions |-> IdleReq]
  /\ poll = [i \in Submissions |-> NoPoll]
  /\ events = [id \in RequestIds |-> <<>>]
  /\ clients = <<>>
  /\ conn = [c \in Connections |-> NoConn]
  /\ published = <<>>
  /\ calls = <<>>
  /\ seen = <<>>
  /\ app = NoApp

(* --------------------------- stage events ----------------------------- *)

\* sendSSEUpdate(update): hands one event to the hub.  The model keeps, per
\* correlation id, the events handed over, in order.
sendSSEUpdate(evs, id, stage, status) ==
  [evs EXCEPT ![id] = Append(@, [stage |-> stage, status |-> status])]

\* sendStageUpdate(requestId, stage, message, status): builds the stage-update
\* event and passes it to sendSSEUpdate.
sendStageUpdate(evs, requestId, stage, status) ==
  sendSSEUpdate(evs, requestId, stage, status)

(* ----------------------- pollForTaskCompletion ------------------------ *)

\* The test after the loop: attempts >= maxAttempts.
timedOut(p) == p.attempts >= maxAttempts

\* A variant of afterLoop that removes the Task on timedOut.
afterLoop_DropsTask(p, ts, evs) ==
  IF timedOut(p)
  THEN [poll   |-> [p EXCEPT !.pc = "done"],
        texts  |-> SelectSeq(ts, LAMBDA t : t.id # p.textId),
        events |-> sendStageUpdate(evs, p.requestId, "timeout", "error")]
  ELSE [poll |-> [p EXCEPT !.pc = "done"], texts |-> ts, events |-> evs]

\* The code after the while loop: on timedOut, mark the text failed (if it is
\* found) and emit the timeout event.  The run is over either way.
afterLoop(p, ts, evs) ==
  IF timedOut(p)
  THEN LET k == findIndex(ts, p.textId) IN
       [poll   |-> [p EXCEPT !.pc = "done"],
        texts  |-> IF k # 0 THEN [ts EXCEPT ![k].status = "failed"] ELSE ts,
        events |-> sendStageUpdate(evs, p.requestId, "timeout", "error")]
  ELSE [poll |-> [p EXCEPT !.pc = "done"], texts |-> ts, events |-> evs]

\* A variant of loopHead without the bound: while (!completed).
loopHead_NoBound(p, ts, evs) ==
  IF ~p.completed
  THEN [poll   |-> [p EXCEPT !.pc = "polling", !.attempts = @ + 1],
        texts  |-> ts,
        events |-> evs]
  ELSE afterLoop(p, ts, evs)

\* The loop head: while (!completed && attempts < maxAttempts) { attempts++;
\* await 5 s; ... }.  Entering the body leaves the run waiting for its next
\* status query; leaving the loop runs afterLoop in the same callback.
loopHead(p, ts, evs) ==
  IF ~p.completed /\ p.attempts < maxAttempts
  THEN [poll   |-> [p EXCEPT !.pc = "polling", !.attempts = @ + 1],
        texts  |-> ts,
        events |-> evs]
  ELSE afterLoop(p, ts, evs)

\* A variant of progressUpdate that emits the progress event on every attempt.
progressUpdate_EveryAttempt(p, evs) ==
  sendStageUpdate(evs, p.requestId, "processing", "in-progress")

\* A variant of progressUpdate that emits the progress event on odd attempts.
progressUpdate_OddAttempts(p, evs) ==
  IF p.attempts % 2 = 1
  THEN sendStageUpdate(evs, p.requestId, "processing", "in-progress")
  ELSE evs

\* The progress event of the processing branch: only on even attempts.
progressUpdate(p, evs) ==
  IF p.attempts % 2 = 0
  THEN sendStageUpdate(evs, p.requestId, "processing", "in-progress")
  ELSE evs

\* A variant of isCompleted that does not look at the URL.
isCompleted_NoUrl(r) == r.status = "completed"

\* The test of the completed branch: status === 'completed' && url.
isCompleted(r) == r.status = "completed" /\ Truthy(r.url)

\* A variant of onQueryError that gives up: the Task is marked failed, an
\* error event is emitted and the loop ends.
onQueryError_GivesUp(p, ts, evs) ==
  LET k == findIndex(ts, p.textId) IN
  loopHead([p EXCEPT !.completed = TRUE],
           IF k # 0 THEN [ts EXCEPT ![k].status = "failed"] ELSE ts,
           sendStageUpdate(evs, p.requestId, "generation-failed", "error"))

\* The catch block of the loop body: log, wait 5 s more, next iteration.
onQueryError(p, ts, evs) == loopHead(p, ts, evs)

\* The loop body from the status query's outcome r on, up to the next await.
onStatusResult(p, r, ts, evs) ==
  IF r.throws
  THEN onQueryError(p, ts, evs)
  ELSE LET k == findIndex(ts, p.textId) IN
       IF k = 0
       THEN loopHead([p EXCEPT !.completed = TRUE], ts, evs)
       ELSE IF isCompleted(r)
       THEN [poll   |-> [p EXCEPT !.pc = "storing", !.textIndex = k,
                                  !.status = r.status, !.url = r.url],
             texts  |-> [ts EXCEPT ![k].status = "completed",
                                   ![k].imageUrl = r.url],
             events |-> sendStageUpdate(
                          sendStageUpdate(evs, p.requestId,
                                          "image-completed", "completed"),
                          p.requestId, "storing-file", "in-progress")]
       ELSE IF r.status = "failed"
       THEN loopHead([p EXCEPT !.completed = TRUE, !.status = r.status],
                     [ts EXCEPT ![k].status = "failed"],
                     sendStageUpdate(evs, p.requestId,
                                     "generation-failed", "error"))
       ELSE IF r.status = "processing"
       THEN loopHead(p, ts, progressUpdate(p, evs))
       ELSE loopHead(p, ts, evs)

\* Outcomes of the filestore step (client creation, filestore_write, parsing
\* of its result): it throws somewhere, or it yields a file result.
StoreResults ==
  {[throws |-> TRUE, file |-> [filename |-> "", url |-> "", fileId |-> Undefined]]}
  \cup {[throws |-> FALSE, file |-> f] : f \in FileResults}

\* The rest of the completed branch, from the filestore step's outcome to the
\* end of the iteration: the Task is updated first, then the events are
\* emitted, then completed = true.
storeOutcome(p, r, ts, evs) ==
  LET k == p.textIndex IN
  IF ~r.throws
  THEN [poll   |-> [p EXCEPT !.completed = TRUE],
        texts  |-> [ts EXCEPT ![k].fileName = r.file.filename,
                              ![k].imageUrl = r.file.url,
                              ![k].fileId = IF Truthy(r.file.fileId)
                                            THEN r.file.fileId
                                            ELSE r.file.filename],
        events |-> sendStageUpdate(evs, p.requestId, "completed", "final")]
  ELSE [poll   |-> [p EXCEPT !.completed = TRUE, !.filestoreError = TRUE],
        texts  |-> ts,
        events |-> sendStageUpdate(
                     sendSSEUpdate(evs, p.requestId,
                                   "filestore-warning", "completed"),
                     p.requestId, "completed", "final")]

\* The rest of the completed branch and the loop head after it.
onStoreResult(p, r, ts, evs) ==
  LET o == storeOutcome(p, r, ts, evs) IN loopHead(o.poll, o.texts, o.events)

\* pollForTaskCompletion(imageClient, taskId, textId, requestId, account) up
\* to its first await: completed = false, attempts = 0, then the loop head.
pollForTaskCompletion(taskId, textId, requestId, ts, evs) ==
  loopHead([NoPoll EXCEPT !.taskId = taskId, !.textId = textId,
                          !.requestId = requestId],
           ts, evs)

\* The 5 s timer of poller i fires and its status query returns.
PollStatus(i) ==
  /\ poll[i].pc = "polling"
  /\ \E r \in StatusResults :
       LET n == onStatusResult(poll[i], r, texts, events) IN
       /\ poll' = [poll EXCEPT ![i] = n.poll]
       /\ texts' = n.texts
       /\ events' = n.events
  /\ UNCHANGED <<env, now, req,
               clients, conn, published, calls, seen, app>>

\* The filestore step of poller i ends.
PollStore(i) ==
  /\ poll[i].pc = "storing"
  /\ \E r \in StoreResults :
       LET n == onStoreResult(poll[i], r, texts, events) IN
       /\ poll' = [poll EXCEPT ![i] = n.poll]
       /\ texts' = n.texts
       /\ events' = n.events
  /\ UNCHANGED <<env, now, req,
               clients, conn, published, calls, seen, app>>

(* --------------------------- POST /api/texts -------------------------- *)

\* A variant of textRequired that forgets to trim: only !text.
textRequired_NoTrim(body) == ~body.hasText \/ body.text = <<>>

\* The handler's first test: !text || text.trim() === ''.
textRequired(body) ==
  ~body.hasText \/ body.text = <<>> \/ trim(body.text) = <<>>

\* res.status(code).json({error}) and return: the handler is over.
respondError(r, code, error) ==
  [r EXCEPT !.pc = "responded", !.res = code, !.error = error]

\* The handler is entered with its request.
enter(r, body, header) == [r EXCEPT !.body = body, !.header = header]

\* The handler of an accepted submission returns: its request is gone.
leave(r) == [r EXCEPT !.body = NoBody, !.header = Undefined]

\* The handler from its entry to the await of the ATXP client creation:
\* validation, connection string, account, the two ids read from the clock
\* (t1 and t2, the clock may advance between the two reads), newText, and the
\* first two stage events.  accountOk: new ATXPAccount(...) did not throw.
postTexts(r0, body, header, envValue, accountOk, t1, t2, evs) ==
  LET r == enter(r0, body, header) IN
  IF textRequired(body)
  THEN [req |-> respondError(r, 400, "Text is required"), events |-> evs]
  ELSE IF getATXPConnectionString(header, envValue).throws
  THEN [req |-> respondError(r, 400, "ATXP connection string not found"),
        events |-> evs]
  ELSE IF ~accountOk
  THEN [req |-> respondError(r, 400, "account error"), events |-> evs]
  ELSE LET requestId == toString(t1)
           textId == t2
       IN [req |-> [r EXCEPT !.pc = "creating-clients",
                             !.requestId = requestId,
                             !.textId = textId,
                             !.newText = [id |-> textId,
                                          text |-> trim(body.text),
                                          timestamp |-> t2,
                                          imageUrl |-> "",
                                          fileName |-> "",
                                          fileId |-> Undefined,
                                          status |-> "pending",
                                          taskId |-> Undefined]],
           events |-> sendStageUpdate(
                        sendStageUpdate(evs, requestId, "initializing",
                                        "in-progress"),
                        requestId, "creating-clients", "in-progress")]

\* The catch block of the handler: the initialization-error event and the
\* 500 response.
onCreateError(r, evs) ==
  [req    |-> leave(respondError(r, 500, "Failed to start image generation")),
   events |-> sendSSEUpdate(evs, r.requestId, "initialization-error", "error")]

\* From the end of the client creation to the await of the creation call.
onClientCreated(r, ok, evs) ==
  IF ok
  THEN [req    |-> [r EXCEPT !.pc = "starting-async-generation"],
        events |-> sendStageUpdate(evs, r.requestId,
                                   "starting-async-generation", "in-progress")]
  ELSE onCreateError(r, evs)

\* Outcomes of image_create_image_async: it throws (or its result does not
\* parse), or it yields a task id.
CreateResults ==
  {[throws |-> TRUE, taskId |-> Undefined]} \cup
  {[throws |-> FALSE, taskId |-> t] : t \in TaskIds}

\* A variant of onAsyncCreateResult that pushes newText before it looks at the
\* creation call's outcome, so that a failed creation leaves a pending Task.
onAsyncCreateResult_PushFirst(r, c, ts, evs) ==
  IF c.throws
  THEN LET e == onCreateError(r, evs) IN
       [req |-> e.req, poll |-> NoPoll, texts |-> Append(ts, r.newText),
        events |-> e.events]
  ELSE LET newText == [r.newText EXCEPT !.taskId = c.taskId,
                                        !.status = "processing"]
           evs1 == sendStageUpdate(evs, r.requestId, "task-started",
                                   "in-progress")
           ts1 == Append(ts, newText)
           p == pollForTaskCompletion(c.taskId, r.textId, r.requestId,
                                      ts1, evs1)
       IN [req    |-> leave([r EXCEPT !.pc = "responded", !.res = 201,
                                      !.newText = newText, !.ref = Len(ts1)]),
           poll   |-> p.poll,
           texts  |-> p.texts,
           events |-> p.events]

\* A variant of onAsyncCreateResult that pushes the Task and responds without
\* starting a poller.
onAsyncCreateResult_NoPoller(r, c, ts, evs) ==
  IF c.throws
  THEN LET e == onCreateError(r, evs) IN
       [req |-> e.req, poll |-> NoPoll, texts |-> ts, events |-> e.events]
  ELSE LET newText == [r.newText EXCEPT !.taskId = c.taskId,
                                        !.status = "processing"]
           evs1 == sendStageUpdate(evs, r.requestId, "task-started",
                                   "in-progress")
           ts1 == Append(ts, newText)
       IN [req    |-> leave([r EXCEPT !.pc = "responded", !.res = 201,
                                      !.newText = newText, !.ref = Len(ts1)]),
           poll   |-> NoPoll,
           texts  |-> ts1,
           events |-> evs1]

\* A variant of onAsyncCreateResult that leaves the Task pending: it records
\* the task id but not the status processing.
onAsyncCreateResult_StaysPending(r, c, ts, evs) ==
  IF c.throws
  THEN LET e == onCreateError(r, evs) IN
       [req |-> e.req, poll |-> NoPoll, texts |-> ts, events |-> e.events]
  ELSE LET newText == [r.newText EXCEPT !.taskId = c.taskId]
           evs1 == sendStageUpdate(evs, r.requestId, "task-started",
                                   "in-progress")
           ts1 == Append(ts, newText)
           p == pollForTaskCompletion(c.taskId, r.textId, r.requestId,
                                      ts1, evs1)
       IN [req    |-> leave([r EXCEPT !.pc = "responded", !.res = 201,
                                      !.newText = newText, !.ref = Len(ts1)]),
           poll   |-> p.poll,
           texts  |-> p.texts,
           events |-> p.events]

\* From the creation call's outcome to the end of the handler: record the task
\* id, emit task-started, push newText, start the poller (which runs up to its
\* first await), respond 201 with newText.
onAsyncCreateResult(r, c, ts, evs) ==
  IF c.throws
  THEN LET e == onCreateError(r, evs) IN
       [req |-> e.req, poll |-> NoPoll, texts |-> ts, events |-> e.events]
  ELSE LET newText == [r.newText EXCEPT !.taskId = c.taskId,
                                        !.status = "processing"]
           evs1 == sendStageUpdate(evs, r.requestId, "task-started",
                                   "in-progress")
           ts1 == Append(ts, newText)
           p == pollForTaskCompletion(c.taskId, r.textId, r.requestId,
                                      ts1, evs1)
       IN [req    |-> leave([r EXCEPT !.pc = "responded", !.res = 201,
                                      !.newText = newText, !.ref = Len(ts1)]),
           poll   |-> p.poll,
           texts  |-> p.texts,
           events |-> p.events]

\* A POST /api/texts request arrives and its handler runs to its first await
\* on an ATXP client, or to its 400 response.
PostTexts(i) ==
  /\ req[i].pc = "idle"
  /\ i > 1 => req[i - 1].pc # "idle"
  /\ \E body \in Bodies, header \in Headers, accountOk \in BOOLEAN,
        d \in {0, 1} :
       /\ now + d <= MaxClock
       /\ LET n == postTexts(req[i], body, header, env, accountOk,
                             now, now + d, events) IN
          /\ req' = [req EXCEPT ![i] = n.req]
          /\ events' = n.events
          /\ now' = IF n.req.pc = "creating-clients" THEN now + d ELSE now
  /\ UNCHANGED <<env, texts, poll,
               clients, conn, published, calls, seen, app>>

\* The ATXP image client of request i is created, or its creation throws.
ClientCreated(i) ==
  /\ req[i].pc = "creating-clients"
  /\ \E ok \in BOOLEAN :
       LET n == onClientCreated(req[i], ok, events) IN
       /\ req' = [req EXCEPT ![i] = n.req]
       /\ events' = n.events
  /\ UNCHANGED <<env, now, texts, poll,
               clients, conn, published, calls, seen, app>>

\* The image_create_image_async call of request i returns or throws.
AsyncCreateResult(i) ==
  /\ req[i].pc = "starting-async-generation"
  /\ \E c \in CreateResults :
       LET n == onAsyncCreateResult(req[i], c, texts, events) IN
       /\ req' = [req EXCEPT ![i] = n.req]
       /\ poll' = [poll EXCEPT ![i] = n.poll]
       /\ texts' = n.texts
       /\ events' = n.events
  /\ UNCHANGED <<env, now,
               clients, conn, published, calls, seen, app>>

\* A variant of getTexts that lists the finished Tasks only.
getTexts_FinishedOnly ==
  SelectSeq(texts, LAMBDA t : t.status \in {"completed", "failed"})

\* GET /api/texts: the response body's texts.
getTexts == texts

\* A millisecond passes.
Tick ==
  /\ now < MaxClock
  /\ now' = now + 1
  /\ UNCHANGED <<env, texts, req, poll, events,
               clients, conn, published, calls, seen, app>>

Next ==
  \/ \E i \in Submissions : PostTexts(i)
  \/ \E i \in Submissions : ClientCreated(i)
  \/ \E i \in Submissions : AsyncCreateResult(i)
  \/ \E i \in Submissions : PollStatus(i)
  \/ \E i \in Submissions : PollStore(i)
  \/ Tick

Spec == Init /\ [][Next]_vars

\* The behaviours with one POST /api/texts request only.
SingleNext ==
  \/ PostTexts(1)
  \/ ClientCreated(1)
  \/ AsyncCreateResult(1)
  \/ PollStatus(1)
  \/ PollStore(1)
  \/ Tick

SingleSpec == Init /\ [][SingleNext]_vars

\* PollStatus with the outcome of the status query recorded in seen.
ObservedPollStatus(i) ==
  /\ poll[i].pc = "polling"
  /\ \E r \in StatusResults :
       LET n == onStatusResult(poll[i], r, texts, events) IN
       /\ poll' = [poll EXCEPT ![i] = n.poll]
       /\ texts' = n.texts
       /\ events' = n.events
       /\ seen' = Append(seen, r)
  /\ UNCHANGED <<env, now, req, clients, conn, published, calls, app>>

ObservedNext ==
  \/ PostTexts(1)
  \/ ClientCreated(1)
  \/ AsyncCreateResult(1)
  \/ ObservedPollStatus(1)
  \/ PollStore(1)
  \/ Tick

\* The behaviours with one POST /api/texts request, with the outcomes of its
\* poller's status queries on record.
ObservedSpec == Init /\ [][ObservedNext]_vars

\* ObservedSpec where every awaited call returns and every timer fires.
ObservedFairSpec ==
  /\ ObservedSpec
  /\ WF_vars(ClientCreated(1))
  /\ WF_vars(AsyncCreateResult(1))
  /\ WF_vars(ObservedPollStatus(1))
  /\ WF_vars(PollStore(1))

\* Every awaited call returns and every timer fires: a handler or poller that
\* waits for one is eventually resumed.
FairSpec ==
  /\ Spec
  /\ \A i \in Submissions :
       /\ WF_vars(ClientCreated(i))
       /\ WF_vars(AsyncCreateResult(i))
       /\ WF_vars(PollStatus(i))
       /\ WF_vars(PollStore(i))

(* ------------------------------ the hub ------------------------------- *)

\* The updates handed to the hub: a stage update of one poller and one of
\* another.
Updates ==
  {[type |-> "stage-update", requestId |-> "1", stage |-> "processing",
    status |-> "in-progress"],
   [type |-> "stage-update", requestId |-> "2", stage |-> "completed",
    status |-> "final"]}

\* `data: ${JSON.stringify(value)}\n\n`, the frame written to a connection;
\* fields are the values of the object's properties, in order.
sseFrame(fields) == <<"data: ">> \o fields \o <<"\n\n">>

\* The frame of the initial connection message.
connectedFrame == sseFrame(<<"connected", "SSE connection established">>)

\* The frame of an update.
updateFrame(u) == sseFrame(<<u.type, u.requestId, u.stage, u.status>>)

\* res.write(frame) on connection c.
write(cn, c, frame) == [cn EXCEPT ![c].received = Append(@, frame)]

\* addSSEClient(res): adds the connection to the set of clients.
addSSEClient(cs, c) ==
  IF \E k \in 1..Len(cs) : cs[k] = c THEN cs ELSE Append(cs, c)

\* A variant of removeSSEClient that locates the connection by its index and
\* splices there: for a connection that is not registered the index is -1 and
\* the last client goes.
removeSSEClient_Splice(cs, c) ==
  IF \E k \in 1..Len(cs) : cs[k] = c
  THEN SelectSeq(cs, LAMBDA x : x # c)
  ELSE SubSeq(cs, 1, Len(cs) - 1)

\* removeSSEClient(res): removes the connection from the set of clients.
removeSSEClient(cs, c) == SelectSeq(cs, LAMBDA x : x # c)

\* The broadcast of one frame to the clients to[k], to[k+1], ...: a client
\* whose connection takes the write receives the frame, a client whose write
\* fails is removed.  cs is the set of clients, cn the connections.
RECURSIVE broadcastFrom(_, _, _, _, _)
broadcastFrom(cs, cn, to, frame, k) ==
  IF k > Len(to)
  THEN [clients |-> cs, conn |-> cn]
  ELSE LET c == to[k] IN
       IF cn[c].state = "open"
       THEN broadcastFrom(cs, write(cn, c, frame), to, frame, k + 1)
       ELSE broadcastFrom(removeSSEClient(cs, c),
                          [cn EXCEPT ![c].removals = @ + 1],
                          to, frame, k + 1)

\* The hub's side of sendSSEUpdate(update): serialize the update once and
\* write it to every registered client, in registration order.
publish(cs, cn, u) == broadcastFrom(cs, cn, cs, updateFrame(u), 1)

\* A variant of getProgress that registers the connection first and sends the
\* connection message through the hub.
getProgress_Broadcast(cs, cn, c) ==
  LET cs1 == addSSEClient(cs, c) IN
  broadcastFrom(cs1, [cn EXCEPT ![c].state = "open"], cs1, connectedFrame, 1)

\* A variant of getProgress that registers the connection without writing
\* the connection message.
getProgress_NoNotice(cs, cn, c) ==
  [clients |-> addSSEClient(cs, c),
   conn    |-> [cn EXCEPT ![c].state = "open"]]

\* The GET /api/progress handler: the response is opened, the connection
\* message is written to it, and it is added to the clients.
getProgress(cs, cn, c) ==
  [clients |-> addSSEClient(cs, c),
   conn    |-> write([cn EXCEPT ![c].state = "open"], c, connectedFrame)]

\* A variant of onClose that leaves the connection registered.
onClose_KeepsClient(cs, cn, c) ==
  [clients |-> cs, conn |-> [cn EXCEPT ![c].state = "closed"]]

\* A variant of onClose that removes the connection by index and splice.
onClose_Splice(cs, cn, c) ==
  [clients |-> removeSSEClient_Splice(cs, c),
   conn    |-> [cn EXCEPT ![c].state = "closed", ![c].removals = @ + 1]]

\* The 'close' listener of a GET /api/progress request: removeSSEClient(res).
onClose(cs, cn, c) ==
  [clients |-> removeSSEClient(cs, c),
   conn    |-> [cn EXCEPT ![c].state = "closed", ![c].removals = @ + 1]]

\* A GET /api/progress request arrives.
Connect(c) ==
  /\ conn[c].state = "none"
  /\ LET n == getProgress(clients, conn, c) IN
     /\ clients' = n.clients
     /\ conn' = n.conn
  /\ UNCHANGED <<env, now, texts, req, poll, events, published, calls, seen, app>>

\* The peer of connection c goes away: writes to it fail from now on, its
\* 'close' event is still to come.
Break(c) ==
  /\ conn[c].state = "open"
  /\ conn' = [conn EXCEPT ![c].state = "broken"]
  /\ UNCHANGED <<env, now, texts, req, poll, events, clients, published, calls, seen, app>>

\* The 'close' event of connection c is delivered.
Close(c) ==
  /\ conn[c].state \in {"open", "broken"}
  /\ LET n == onClose(clients, conn, c) IN
     /\ clients' = n.clients
     /\ conn' = n.conn
  /\ UNCHANGED <<env, now, texts, req, poll, events, published, calls, seen, app>>

\* A poller (or a handler) hands an update to the hub.  published records
\* the update with the clients registered and the connections open when the
\* broadcast started.
Publish ==
  /\ Len(published) < MaxPublishes
  /\ \E u \in Updates :
       LET n == publish(clients, conn, u) IN
       /\ clients' = n.clients
       /\ conn' = n.conn
       /\ published' =
            Append(published,
                   [update |-> u, clients |-> clients,
                    open |-> {c \in Connections : conn[c].state = "open"}])
  /\ UNCHANGED <<env, now, texts, req, poll, events, calls, seen, app>>

HubNext ==
  \/ \E c \in Connections : Connect(c)
  \/ \E c \in Connections : Break(c)
  \/ \E c \in Connections : Close(c)
  \/ Publish

\* The behaviours of the hub and its connections.
HubSpec == Init /\ [][HubNext]_vars

(* ----------------------------- atxp-utils ----------------------------- *)

\* Outcomes of new ATXPAccount(connectionString, {network: 'base'}) (and of
\* the dynamic import before it): an account object, a thrown Error with its
\* message, or a thrown value that is no Error.
NoThrown == [isError |-> FALSE, message |-> Undefined]
AccountOutcomes ==
  {[throws |-> FALSE, thrown |-> NoThrown]} \cup
  {[throws |-> TRUE, thrown |-> t] :
     t \in {[isError |-> TRUE, message |-> "Invalid connection string format"],
            [isError |-> TRUE, message |-> ""],
            [isError |-> FALSE, message |-> Undefined]}}

\* findATXPAccount(connectionString): the account made of the connection
\* string, or the constructor's throw.
findATXPAccount(connectionString, outcome) ==
  IF outcome.throws
  THEN [throws |-> TRUE, account |-> Undefined, thrown |-> outcome.thrown]
  ELSE [throws |-> FALSE, account |-> "ATXPAccount", thrown |-> NoThrown]

\* The catch block of validateATXPConnectionString.
validationError(thrown) ==
  [throws |-> FALSE, isValid |-> FALSE,
   error |-> IF thrown.isError THEN thrown.message
             ELSE "Unknown error occurred"]

\* A variant of validateATXPConnectionString whose catch block reports the
\* same text for every failure.
validateATXPConnectionString_GenericError(header, envValue, outcome) ==
  LET g == getATXPConnectionString(header, envValue)
      a == findATXPAccount(g.value, outcome)
  IN IF g.throws \/ a.throws
     THEN [throws |-> FALSE, isValid |-> FALSE,
           error |-> "Unknown error occurred"]
     ELSE [throws |-> FALSE, isValid |-> TRUE, error |-> Undefined]

\* validateATXPConnectionString(req): try { getATXPConnectionString,
\* findATXPAccount, the test of the account } catch { the error's message }.
validateATXPConnectionString(header, envValue, outcome) ==
  LET g == getATXPConnectionString(header, envValue) IN
  IF g.throws
  THEN validationError(g.thrown)
  ELSE LET a == findATXPAccount(g.value, outcome) IN
       IF a.throws
       THEN validationError(a.thrown)
       ELSE IF a.account # Undefined
       THEN [throws |-> FALSE, isValid |-> TRUE, error |-> Undefined]
       ELSE [throws |-> FALSE, isValid |-> FALSE,
             error |-> "Invalid ATXP connection string"]

\* The placeholders of a recorded call for the function it did not call.
NoGet == [throws |-> FALSE, value |-> Undefined, thrown |-> NoThrown]
NoValidation == [throws |-> FALSE, isValid |-> FALSE, error |-> Undefined]

\* getATXPConnectionString is called with a request whose
\* x-atxp-connection-string header is header.
GetConnectionString ==
  /\ Len(calls) < MaxCalls
  /\ \E header \in Headers :
       calls' = Append(calls,
                       [fn |-> "getATXPConnectionString", header |-> header,
                        outcome |-> [throws |-> FALSE, thrown |-> NoThrown],
                        got |-> getATXPConnectionString(header, env),
                        validation |-> NoValidation])
  /\ UNCHANGED <<env, now, texts, req, poll, events, clients, conn, published,
               seen, app>>

\* GET /api/validate-connection: validateATXPConnectionString is called with
\* the request; outcome is what the account's construction does if reached.
ValidateConnection ==
  /\ Len(calls) < MaxCalls
  /\ \E header \in Headers, outcome \in AccountOutcomes :
       calls' = Append(calls,
                       [fn |-> "validateATXPConnectionString",
                        header |-> header, outcome |-> outcome,
                        got |-> NoGet,
                        validation |->
                          validateATXPConnectionString(header, env, outcome)])
  /\ UNCHANGED <<env, now, texts, req, poll, events, clients, conn, published,
               seen, app>>

UtilNext ==
  \/ GetConnectionString
  \/ ValidateConnection

\* The calls of the two functions, for every header, environment value and
\* outcome of the account's construction.
UtilSpec == Init /\ [][UtilNext]_vars

(* --------------------------- the frontend App ------------------------- *)

\* The stage updates the server sends: a progress update, an intermediate
\* completion, the final completion (stage completed, status final) and an
\* error.
StageMessages ==
  {[stage |-> "processing", status |-> "in-progress"],
   [stage |-> "image-completed", status |-> "completed"],
   [stage |-> "completed", status |-> "final"],
   [stage |-> "timeout", status |-> "error"]}

\* eventSource.close() on the EventSource eventSourceRef.current points to,
\* and eventSourceRef.current = null.
closeCurrent(a) ==
  IF a.ref # 0
  THEN [a EXCEPT !.sources[a.ref] = "closed", !.ref = 0]
  ELSE a

\* setupSSE(): close the existing connection if there is one, create an
\* EventSource and keep it in eventSourceRef.
setupSSE(a) ==
  LET a1 == closeCurrent(a) IN
  [a1 EXCEPT !.sources = Append(@, "open"), !.ref = Len(a1.sources) + 1]

\* eventSource.onmessage for a stage update: it becomes the current stage and
\* is added to the history; for status final or error, unless the stage is
\* named 'final', a 3 s timeout is set that clears the current stage.
onmessage(a, stage) ==
  LET a1 == [a EXCEPT !.currentStage = stage,
                      !.stageHistory = Append(@, stage)]
  IN IF stage.status = "final" \/ stage.status = "error"
     THEN IF stage.stage = "final"
          THEN a1
          ELSE [a1 EXCEPT !.clearTimers = @ + 1]
     ELSE a1

\* eventSource.onerror of the EventSource at position k: if it is the current
\* one it is closed, the ref is cleared and a 5 s timeout is set that calls
\* setupSSE.
onerror(a, k) ==
  IF a.ref = k
  THEN [closeCurrent(a) EXCEPT !.reconnectTimers = @ + 1]
  ELSE a

\* The cleanup of the SSE effect.
cleanup(a) == closeCurrent(a)

\* handleSubmit with a text and a connection string, up to its await: the
\* stage history and the current stage are cleared.
handleSubmit(a) == [a EXCEPT !.stageHistory = <<>>, !.currentStage = Null]

\* The component is mounted: the SSE effect runs setupSSE.
Mount ==
  /\ app.phase = "initial"
  /\ app' = setupSSE([app EXCEPT !.phase = "mounted"])
  /\ UNCHANGED <<env, now, texts, req, poll, events, clients, conn, published,
                 calls, seen>>

\* The component is unmounted: the SSE effect's cleanup runs.
Unmount ==
  /\ app.phase = "mounted"
  /\ app' = cleanup([app EXCEPT !.phase = "unmounted"])
  /\ UNCHANGED <<env, now, texts, req, poll, events, clients, conn, published,
                 calls, seen>>

\* An open EventSource reports an error.
SseError ==
  /\ \E k \in 1..Len(app.sources) :
       /\ app.sources[k] = "open"
       /\ app' = onerror(app, k)
  /\ UNCHANGED <<env, now, texts, req, poll, events, clients, conn, published,
                 calls, seen>>

\* A 5 s reconnect timeout fires.
ReconnectTimer ==
  /\ app.reconnectTimers > 0
  /\ Len(app.sources) < MaxSources
  /\ app' = setupSSE([app EXCEPT !.reconnectTimers = @ - 1])
  /\ UNCHANGED <<env, now, texts, req, poll, events, clients, conn, published,
                 calls, seen>>

\* An open EventSource of the mounted component delivers a stage update.
SseMessage ==
  /\ app.phase = "mounted"
  /\ Len(app.stageHistory) < MaxMessages
  /\ app.clearTimers < MaxMessages
  /\ \E k \in 1..Len(app.sources), stage \in StageMessages :
       /\ app.sources[k] = "open"
       /\ app' = onmessage(app, stage)
  /\ UNCHANGED <<env, now, texts, req, poll, events, clients, conn, published,
                 calls, seen>>

\* A 3 s timeout set by onmessage fires: setCurrentStage(null).
ClearTimer ==
  /\ app.clearTimers > 0
  /\ app' = [app EXCEPT !.clearTimers = @ - 1, !.currentStage = Null]
  /\ UNCHANGED <<env, now, texts, req, poll, events, clients, conn, published,
                 calls, seen>>

\* The user submits a text.
Submit ==
  /\ app.phase = "mounted"
  /\ app' = handleSubmit(app)
  /\ UNCHANGED <<env, now, texts, req, poll, events, clients, conn, published,
                 calls, seen>>

AppNext ==
  \/ Mount
  \/ Unmount
  \/ SseError
  \/ ReconnectTimer
  \/ SseMessage
  \/ ClearTimer
  \/ Submit

\* The behaviours of the frontend's App component.
AppSpec == Init /\ [][AppNext]_vars

(* ------------------------ vocabulary of the claims -------------------- *)

\* The submissions whose Task was pushed to texts, and the Task of each: the
\* object newText the handler pushed.
Pushed(i) == req[i].ref # 0
ownTask(i) == IF Pushed(i) THEN texts[req[i].ref] ELSE req[i].newText

\* The stage events emitted with submission i's correlation id.
eventsOf(i) ==
  IF req[i].requestId \in RequestIds THEN events[req[i].requestId] ELSE <<>>

\* Number of entries of a sequence of events with the given status / stage.
countStatus(evs, status) ==
  Cardinality({k \in 1..Len(evs) : evs[k].status = status})
countStage(evs, stage) ==
  Cardinality({k \in 1..Len(evs) : evs[k].stage = stage})

\* The run of submission i has observed completed-with-URL and is in (or
\* past) its filestore step / has observed failed / has left the loop by the
\* attempt bound without a terminal observation.
ObservedCompleted(i) ==
  poll[i].pc \in {"storing", "done"} /\ poll[i].status = "completed"
ObservedFailed(i) == poll[i].pc = "done" /\ poll[i].status = "failed"
RanOut(i) == poll[i].pc = "done" /\ ~poll[i].completed

(* ------------------------------- C1 ----------------------------------- *)

\* C1: every run of pollForTaskCompletion that observes completed with a URL
\* leads to its Task having status completed and to a final stage event under
\* its correlation id, at whatever attempt the completion is observed.  (A
\* run is in its filestore step, pc = "storing", exactly from the step in
\* which it observes completed with a URL.)
C1_CompletionLeadsToCompleted ==
  \A i \in Submissions :
    /\ (poll[i].pc = "storing") ~> (ownTask(i).status = "completed")
    /\ (poll[i].pc = "storing") ~> (countStatus(eventsOf(i), "final") >= 1)

(* ------------------------------- C2 ----------------------------------- *)

\* C2: a run that observed failed has set its Task to failed, exactly one
\* error event was emitted under its correlation id, and that event is the
\* last one emitted under that id.
C2_FailedEmitsOneError ==
  \A i \in Submissions :
    ObservedFailed(i) =>
      /\ ownTask(i).status = "failed"
      /\ countStatus(eventsOf(i), "error") = 1
      /\ eventsOf(i)[Len(eventsOf(i))].status = "error"

(* ------------------------------- C3 ----------------------------------- *)

\* C3: a run that used up its attempts without a terminal observation has set
\* its Task to failed and emitted exactly one timeout event and no final event.
C3_TimeoutFailsTask ==
  \A i \in Submissions :
    RanOut(i) =>
      /\ ownTask(i).status = "failed"
      /\ countStage(eventsOf(i), "timeout") = 1
      /\ countStatus(eventsOf(i), "final") = 0

(* ------------------------------- C4 ----------------------------------- *)

\* C4: under every correlation id, an event with status final or error is the
\* last event emitted (so there is at most one, and nothing follows it).
C4_TerminalEventIsLast ==
  \A id \in RequestIds :
    \A k \in 1..Len(events[id]) :
      events[id][k].status \in {"final", "error"} => k = Len(events[id])

(* ------------------------------- C5 ----------------------------------- *)

\* Position of a status in the order pending < processing < terminal.
rank(status) ==
  CASE status = "pending" -> 0
    [] status = "processing" -> 1
    [] OTHER -> 2

\* C5: no step moves a Task's status backwards, and a completed or failed
\* Task keeps its status.
C5_StatusForwardOnly ==
  [][\A k \in 1..Len(texts) :
       /\ rank(texts'[k].status) >= rank(texts[k].status)
       /\ texts[k].status \in {"completed", "failed"}
            => texts'[k].status = texts[k].status]_vars

(* ------------------------------- C6 ----------------------------------- *)

\* Some poller polling the id of the Task at position k of texts has applied
\* a terminal outcome (it observed completed-with-URL or failed, or ran out).
terminalApplied(k) ==
  \E j \in Submissions :
    poll[j].pc \in {"storing", "done"} /\ poll[j].textId = texts[k].id

C7_CreationFailure ==
  /\ [][\A i \in Submissions :
          (req[i].pc \in {"creating-clients", "starting-async-generation"}
             /\ req'[i].pc = "responded" /\ req'[i].res # 201) =>
            /\ req'[i].res = 500
            /\ events' = [events EXCEPT ![req[i].requestId] =
                            Append(@, [stage |-> "initialization-error",
                                       status |-> "error"])]
            /\ poll'[i].pc = "none"
            /\ texts' = texts]_vars
  /\ [](\A i \in Submissions :
          req[i].res = 500 =>
            /\ poll[i].pc = "none"
            /\ ~Pushed(i)
            /\ \A k \in 1..Len(getTexts) :
                 \E j \in Submissions \ {i} :
                   req[j].res = 201 /\ req[j].ref = k)

\* A submission was answered 500 and another one is listed.
C7_Witness ==
  \E i \in Submissions :
    /\ req[i].res = 500
    /\ countStatus(eventsOf(i), "error") >= 1
    /\ Len(getTexts) >= 1

(* ------------------------------- C8 ----------------------------------- *)

\* A text of blanks only (the empty text included).
Blank(text) == \A k \in 1..Len(text) : text[k] = " "

\* C8: a request whose text is missing, empty or blank, or that comes with
\* neither a non-empty header nor a non-empty environment variable, is
\* answered 400 in the step it arrives in, and that step changes neither
\* texts nor the emitted events nor the pollers.
C8_RejectedUnchanged ==
  [][\A i \in Submissions :
       (/\ req[i].pc = "idle"
        /\ req'[i].pc # "idle"
        /\ \/ ~req'[i].body.hasText
           \/ Blank(req'[i].body.text)
           \/ (req'[i].header \in {Undefined, ""} /\ env \in {Undefined, ""})) =>
         /\ req'[i].pc = "responded"
         /\ req'[i].res = 400
         /\ texts' = texts
         /\ events' = events
         /\ poll' = poll]_vars

\* A blank text was rejected, and so was a request without connection string.
C8_Witness ==
  /\ \E i \in Submissions :
       req[i].res = 400 /\ req[i].body.hasText /\ req[i].body.text = <<" ">>
  /\ \E i \in Submissions :
       /\ req[i].res = 400
       /\ req[i].body.text = <<"a">>
       /\ ~Truthy(req[i].header) /\ ~Truthy(env)

(* ------------------------------- C9 ----------------------------------- *)

followedBy(evs, a, b) ==
  \E k \in 1..(Len(evs) - 1) : evs[k].stage = a /\ evs[k + 1].stage = b

\* C10: a run whose filestore step failed after completed-with-URL X ends
\* with its Task completed with URL X, the filestore-warning event followed by
\* the final completed event, and no error event.
C10_FilestoreFallback ==
  \A i \in Submissions :
    (poll[i].pc = "done" /\ poll[i].filestoreError) =>
      /\ ownTask(i).status = "completed"
      /\ ownTask(i).imageUrl = poll[i].url
      /\ followedBy(eventsOf(i), "filestore-warning", "completed")
      /\ eventsOf(i)[Len(eventsOf(i))].status = "final"
      /\ countStatus(eventsOf(i), "error") = 0

(* --------------------------- C11: fan-out ----------------------------- *)

\* c is one of the clients cs.
Registered(cs, c) == \E k \in 1..Len(cs) : cs[k] = c

\* What connection c must have been sent after the first k publishes: its
\* connection message, then one frame for each publish that found it
\* registered with its connection open, in the order of the publishes.
RECURSIVE framesDue(_, _)
framesDue(c, k) ==
  IF k = 0
  THEN <<connectedFrame>>
  ELSE LET p == published[k] IN
       IF Registered(p.clients, c) /\ c \in p.open
       THEN Append(framesDue(c, k - 1), updateFrame(p.update))
       ELSE framesDue(c, k - 1)

Received(c, u) ==
  \E k \in 1..Len(conn[c].received) : conn[c].received[k] = updateFrame(u)

\* C12: a client whose connection closed, or whose write failed during a
\* broadcast, is no longer registered; every client whose connection is
\* open stays registered, and has received every update published while it
\* was registered with its connection open.
C12_OthersUnaffected ==
  /\ \A c \in Connections :
       /\ conn[c].state = "closed" => ~Registered(clients, c)
       /\ conn[c].state = "open" => Registered(clients, c)
  /\ \A k \in 1..Len(published) :
       \A c \in Connections :
         Registered(published[k].clients, c) =>
           IF c \in published[k].open
           THEN Received(c, published[k].update)
           ELSE ~Registered(clients, c)

\* A broadcast met a client whose write failed and a client whose connection
\* was open; a later update was published and reached the open one, which is
\* still registered after the other's close event.
C12_Witness ==
  /\ Len(published) >= 2
  /\ published[1].clients = <<1, 2>>
  /\ published[1].open = {2}
  /\ published[2].clients = <<2>>
  /\ published[2].open = {2}
  /\ published[1].update # published[2].update
  /\ conn[1].state = "closed"
  /\ Received(2, published[1].update)
  /\ Received(2, published[2].update)
  /\ Registered(clients, 2)

(* ------------------- C13: unsubscribe is idempotent ------------------- *)

callsOf(fn) == {k \in 1..Len(calls) : calls[k].fn = fn}

\* A header or environment value that is present and not empty.
Present(v) == v \notin {Undefined, ""}

\* C14: getATXPConnectionString returns the header when it is present and
\* not empty, whatever the environment variable; otherwise the environment
\* variable when it is set and not empty; otherwise it throws the Error
\* 'ATXP connection string not found...'.
C14_HeaderThenEnv ==
  \A k \in callsOf("getATXPConnectionString") :
    LET header == calls[k].header
        got == calls[k].got
    IN IF Present(header)
       THEN ~got.throws /\ got.value = header
       ELSE IF Present(env)
       THEN ~got.throws /\ got.value = env
       ELSE /\ got.throws
            /\ got.thrown.isError
            /\ got.thrown.message = NotFoundMessage

\* With the environment variable set, one call with a header (the header is
\* returned) and one with an empty header (the environment's value is).
C14_Witness ==
  /\ env = "env-connection"
  /\ Len(calls) = 2
  /\ calls[1].fn = "getATXPConnectionString"
  /\ calls[1].header = "header-connection"
  /\ calls[1].got.value = "header-connection"
  /\ calls[2].fn = "getATXPConnectionString"
  /\ calls[2].header = ""
  /\ calls[2].got.value = "env-connection"

(* ---------------- C15: validateATXPConnectionString ------------------- *)

\* C15: validateATXPConnectionString never throws; it returns isValid true
\* exactly when a connection string is resolved and the account's
\* construction succeeds; otherwise isValid false with an error, which is
\* the 'not found' message when no connection string is available and the
\* thrown Error's message when the construction throws an Error.
C15_ValidationNeverThrows ==
  \A k \in callsOf("validateATXPConnectionString") :
    LET header == calls[k].header
        outcome == calls[k].outcome
        v == calls[k].validation
        resolved == Present(header) \/ Present(env)
    IN /\ ~v.throws
       /\ v.isValid <=> (resolved /\ ~outcome.throws)
       /\ v.isValid => v.error = Undefined
       /\ ~v.isValid => v.error # Undefined
       /\ ~resolved => v.error = NotFoundMessage
       /\ (resolved /\ outcome.throws /\ outcome.thrown.isError)
            => v.error = outcome.thrown.message

\* With no environment variable: one validation without a header (the 'not
\* found' message) and one with a header whose account construction throws
\* (the constructor's message).
C15_Witness ==
  /\ env = Undefined
  /\ Len(calls) = 2
  /\ calls[1].fn = "validateATXPConnectionString"
  /\ calls[1].header = Undefined
  /\ calls[1].validation.error = NotFoundMessage
  /\ calls[2].fn = "validateATXPConnectionString"
  /\ calls[2].header = "header-connection"
  /\ calls[2].outcome.throws
  /\ calls[2].validation.error = "Invalid connection string format"

(* ---------------------- C16: order of the events ---------------------- *)

Ev(stage, status) == [stage |-> stage, status |-> status]

\* The events of a submission whose generation and filestore step succeed,
\* with k progress events; with warn, those of one whose filestore step
\* fails.
successPath(k, warn) ==
  <<Ev("initializing", "in-progress"), Ev("creating-clients", "in-progress"),
    Ev("starting-async-generation", "in-progress"),
    Ev("task-started", "in-progress")>>
  \o [j \in 1..k |-> Ev("processing", "in-progress")]
  \o <<Ev("image-completed", "completed"), Ev("storing-file", "in-progress")>>
  \o (IF warn THEN <<Ev("filestore-warning", "completed")>> ELSE <<>>)
  \o <<Ev("completed", "final")>>

IsPrefix(a, b) == Len(a) <= Len(b) /\ \A j \in 1..Len(a) : a[j] = b[j]

\* The events that are not error events.
nonError(evs) == SelectSeq(evs, LAMBDA e : e.status # "error")

\* The observed poller saw processing, processing, completed with URL X, and
\* its run is over.
SawProcessingTwiceThenCompleted ==
  /\ Len(seen) = 3
  /\ \A j \in 1..2 : ~seen[j].throws /\ seen[j].status = "processing"
  /\ ~seen[3].throws /\ seen[3].status = "completed" /\ seen[3].url = "X"
  /\ poll[1].pc = "done"

\* C16 as stated: the events of a submission that are not error events come
\* in the order initializing, creating-clients, starting-async-generation,
\* task-started, progress events, image-completed, storing-file,
\* completed(final); and after the statuses processing, processing,
\* completed(X) the events are exactly these with one progress event, and
\* the Task is completed.
C16_StageOrder ==
  /\ \E k \in 0..maxAttempts :
       IsPrefix(nonError(eventsOf(1)), successPath(k, FALSE))
  /\ SawProcessingTwiceThenCompleted =>
       /\ eventsOf(1) = successPath(1, FALSE)
       /\ ownTask(1).status = "completed"

\* C16, amended: the same, with the filestore-warning event between
\* storing-file and completed(final) when the filestore step fails.
C16_StageOrderWithWarning ==
  /\ \E k \in 0..maxAttempts, warn \in BOOLEAN :
       IsPrefix(nonError(eventsOf(1)), successPath(k, warn))
  /\ SawProcessingTwiceThenCompleted =>
       /\ eventsOf(1) = successPath(1, poll[1].filestoreError)
       /\ ownTask(1).status = "completed"

\* The statuses processing, processing, completed(X) were seen, the filestore
\* step succeeded and the run is over.
C16_Witness ==
  /\ SawProcessingTwiceThenCompleted
  /\ ~poll[1].filestoreError
  /\ Len(eventsOf(1)) = 8

(* ------------------------ C17: disjoint task ids ---------------------- *)

\* C17: any two Tasks of the store have different ids, and the Task a poller
\* updates on a completed result is the one its own submission pushed.
C17_DisjointTaskIds ==
  /\ \A j, k \in 1..Len(texts) : j # k => texts[j].id # texts[k].id
  /\ \A i \in Submissions :
       poll[i].pc = "storing" => poll[i].textIndex = req[i].ref

(* -------------------- C18: result URL only if completed --------------- *)

\* C18: a Task whose imageUrl is not empty has status completed.
C18_UrlOnlyWhenCompleted ==
  \A k \in 1..Len(texts) :
    texts[k].imageUrl # "" => texts[k].status = "completed"

(* ------------------- C19: a status query that throws ------------------ *)

\* The step records a status query of the observed poller that threw.
QueryThrew == Len(seen') = Len(seen) + 1 /\ seen'[Len(seen')].throws

\* The step leaves the Task and the events alone and the poller waiting for
\* its next attempt.
Retried ==
  /\ texts' = texts
  /\ events' = events
  /\ poll'[1].pc = "polling"
  /\ poll'[1].attempts = poll[1].attempts + 1

\* A query threw earlier, and the last query returned r.
ThrewBefore == \E j \in 1..(Len(seen) - 1) : seen[j].throws
LastSeen == seen[Len(seen)]

\* After an earlier throw, a completed result with a URL and a failed result
\* are handled as ever: the Task is completed with the URL and the filestore
\* step is under way, or the Task is failed and generation-failed is emitted.
HandledNormally ==
  (Len(seen) >= 2 /\ ThrewBefore /\ ~LastSeen.throws) =>
    /\ (LastSeen.status = "completed" /\ Truthy(LastSeen.url)
          /\ poll[1].pc = "storing") =>
         /\ ownTask(1).status = "completed"
         /\ ownTask(1).imageUrl = LastSeen.url
         /\ eventsOf(1)[Len(eventsOf(1))] = Ev("storing-file", "in-progress")
    /\ LastSeen.status = "failed" =>
         /\ poll[1].pc = "done"
         /\ ownTask(1).status = "failed"
         /\ countStage(eventsOf(1), "generation-failed") = 1

\* C19 as stated: a status query that throws changes neither the Task nor
\* the events and leaves the poller waiting for its next attempt, and later
\* terminal results are handled normally.
C19_ThrowIsRetried ==
  /\ [][QueryThrew => Retried]_vars
  /\ []HandledNormally

\* C19, amended: the same for a throw on an attempt that is not the last.
C19_ThrowBeforeLastIsRetried ==
  /\ [][(QueryThrew /\ poll[1].attempts < maxAttempts) => Retried]_vars
  /\ []HandledNormally

\* A query threw on the first attempt and the next returned completed with a
\* URL, which is being handled.
C19_Witness ==
  /\ Len(seen) = 2
  /\ seen[1].throws
  /\ seen[2].status = "completed"
  /\ seen[2].url = "X"
  /\ poll[1].pc = "storing"
  /\ poll[1].attempts = 2

(* ----------------------- C20: the poller terminates ------------------- *)

\* C20: a poller makes at most maxAttempts status queries, those that threw
\* included, makes none once it is over, and every poller that was started
\* ends.
C20_PollerTerminates ==
  /\ [](Len(seen) <= maxAttempts /\ poll[1].attempts <= maxAttempts)
  /\ [][poll[1].pc = "done" => seen' = seen]_vars
  /\ (poll[1].pc = "polling") ~> (poll[1].pc = "done")

\* The poller is over after maxAttempts status queries, none of them
\* terminal and one of them a throw.
C20_Witness ==
  /\ poll[1].pc = "done"
  /\ ~poll[1].completed
  /\ Len(seen) = maxAttempts
  /\ \E j \in 1..Len(seen) : seen[j].throws

(* ---------------- C21: the poller stops on a terminal outcome only ---- *)

\* An outcome of a status query that is not terminal: a throw, or a status
\* other than failed and other than completed with a URL.
NonTerminal(r) ==
  \/ r.throws
  \/ r.status \in {"processing", "pending"}
  \/ r.status = "completed" /\ r.url \in {Undefined, ""}

\* The events of final or error status.
terminalEvents(evs) == SelectSeq(evs, LAMBDA e : e.status \in {"final", "error"})

\* C21: while the poller has made fewer than maxAttempts status queries and
\* all of them had a non-terminal outcome, it is waiting for its next query,
\* no final or error event has been emitted, and the Task is as the handler
\* pushed it: processing, without a result URL.
C21_PollsUntilTerminal ==
  (/\ poll[1].pc # "none"
   /\ Len(seen) < maxAttempts
   /\ \A j \in 1..Len(seen) : NonTerminal(seen[j]))
  => /\ poll[1].pc = "polling"
     /\ poll[1].attempts = Len(seen) + 1
     /\ terminalEvents(eventsOf(1)) = <<>>
     /\ ownTask(1).status = "processing"
     /\ ownTask(1).imageUrl = ""

\* A throw, a completed result without URL and a processing result were
\* seen, and the poller is waiting for its fourth query.
C21_Witness ==
  /\ Len(seen) = 3
  /\ seen[1].throws
  /\ seen[2].status = "completed" /\ seen[2].url = Undefined
  /\ seen[3].status = "processing"
  /\ poll[1].pc = "polling"

(* -------------------- C22: progress events are rate-limited ----------- *)

\* The step records the outcome of status query number k of the observed
\* poller.
QueryAnswered(k) == Len(seen') = Len(seen) + 1 /\ poll[1].attempts = k

\* The step emits one more processing event for the observed submission.
EmitsProgress ==
  countStage(events'[req[1].requestId], "processing")
    = countStage(events[req[1].requestId], "processing") + 1

\* The step emits no processing event for the observed submission.
EmitsNoProgress ==
  countStage(events'[req[1].requestId], "processing")
    = countStage(events[req[1].requestId], "processing")

\* C22: the step that handles the outcome of status query k emits a
\* processing event if k is even and the outcome is the status processing,
\* and no processing event otherwise; no other step emits one.
C22_ProgressOnEvenAttempts ==
  /\ [][\A k \in 1..maxAttempts :
          QueryAnswered(k) =>
            LET r == seen'[Len(seen')] IN
            IF k % 2 = 0 /\ ~r.throws /\ r.status = "processing"
            THEN EmitsProgress
            ELSE EmitsNoProgress]_vars
  /\ [][(seen' = seen /\ req[1].requestId \in RequestIds) =>
          EmitsNoProgress]_vars

\* Four queries returned processing and two progress events were emitted.
C22_Witness ==
  /\ Len(seen) = 4
  /\ \A j \in 1..4 : ~seen[j].throws /\ seen[j].status = "processing"
  /\ countStage(eventsOf(1), "processing") = 2

(* ---------------- C23: the Task is updated before final --------------- *)

\* C23: when the final event of a submission is emitted (at the end of the
\* completed branch, for either outcome of the filestore step), the
\* submission's Task has status completed and its imageUrl is the file's URL
\* if the filestore step succeeded and the URL of the status query if not.
C23_FinalAfterTaskUpdated ==
  \A i \in Submissions :
    poll[i].pc = "storing" =>
      \A r \in StoreResults :
        LET o == storeOutcome(poll[i], r, texts, events)
            evs == o.events[poll[i].requestId]
            t == o.texts[req[i].ref]
        IN /\ evs[Len(evs)] = [stage |-> "completed", status |-> "final"]
           /\ t.status = "completed"
           /\ t.imageUrl = IF r.throws THEN poll[i].url ELSE r.file.url

(* --------------------- C24: the connected notice ---------------------- *)

\* Number of copies of the connection message connection c has received.
notices(c) ==
  Cardinality({k \in 1..Len(conn[c].received) :
                 conn[c].received[k] = connectedFrame})

\* C24: a connection that has not arrived is not registered and has received
\* nothing; one that has arrived received the connection message first and
\* once only; a registered one has been written to before; a closed one is
\* not registered; and the step in which a connection arrives writes to no
\* other connection and registers this one behind the clients there are.
C24_ConnectedNotice ==
  /\ [](\A c \in Connections :
          /\ conn[c].state = "none" =>
               ~Registered(clients, c) /\ conn[c].received = <<>>
          /\ conn[c].state # "none" =>
               /\ conn[c].received # <<>>
               /\ conn[c].received[1] = connectedFrame
               /\ notices(c) = 1
          /\ Registered(clients, c) => conn[c].received # <<>>
          /\ conn[c].state = "closed" => ~Registered(clients, c))
  /\ [][\A c \in Connections :
          (conn[c].state = "none" /\ conn'[c].state # "none") =>
            /\ \A d \in Connections \ {c} : conn'[d] = conn[d]
            /\ clients' = Append(clients, c)]_vars

\* The first connection received an update before the second arrived; the
\* second has received its connection message only, and is closed and
\* unregistered.
C24_Witness ==
  /\ Len(conn[1].received) = 2
  /\ conn[1].state = "open"
  /\ conn[2].received = <<connectedFrame>>
  /\ conn[2].state = "closed"
  /\ clients = <<1>>
  /\ Len(published) = 1
  /\ published[1].clients = <<1>>

(* ------------------- C25: the store only grows ------------------------ *)

\* C25: every step keeps the Tasks there are, in their places, with their
\* id, text, timestamp and taskId; the steps of the pollers (those that are
\* no step of a handler) add no Task.
C25_StoreOnlyGrows ==
  [][/\ Len(texts') >= Len(texts)
     /\ \A k \in 1..Len(texts) :
          /\ texts'[k].id = texts[k].id
          /\ texts'[k].text = texts[k].text
          /\ texts'[k].timestamp = texts[k].timestamp
          /\ texts'[k].taskId = texts[k].taskId
     /\ req' = req => Len(texts') = Len(texts)]_vars

\* Two Tasks are in the store; a poller has written status, imageUrl,
\* fileName and fileId of the first.
C25_Witness ==
  /\ Len(texts) = 2
  /\ texts[1].status = "completed"
  /\ texts[1].imageUrl # ""
  /\ texts[1].fileName # ""
  /\ texts[1].fileId # Undefined
  /\ \E i \in Submissions : poll[i].pc = "done"

(* ---------------- C26: the final stage stays displayed ---------------- *)

\* C26: while the final completion stage is the current stage, only a new
\* stage update or a new submission (the steps that change the stage
\* history) replaces it.
C26_FinalStageStays ==
  [][(app.currentStage.status = "final" /\ app'.stageHistory = app.stageHistory)
       => app'.currentStage = app.currentStage]_vars

(* ------------- C30: no SSE connection after the unmount --------------- *)

\* C30: once the component is unmounted every EventSource it created is
\* closed.
C30_NoSourceAfterUnmount ==
  app.phase = "unmounted" =>
    \A k \in 1..Len(app.sources) : app.sources[k] = "closed"

(* ------------- C27: a finished poller leaves a terminal Task ---------- *)

\* C27: when the poller of a submission has finished, the Task that
\* submission created is completed or failed.
C27_TerminalWhenPollerDone ==
  \A i \in Submissions :
    poll[i].pc = "done" => ownTask(i).status \in {"completed", "failed"}

(* ------------- C28: the URL of a listed completed Task ---------------- *)

\* C28: a Task that GET /api/texts lists as completed keeps its imageUrl in
\* every later step.
C28_CompletedUrlStable ==
  [][\A k \in 1..Len(getTexts) :
       getTexts[k].status = "completed"
         => getTexts'[k].imageUrl = getTexts[k].imageUrl]_vars

(* ------------- C29: one Poller for each Task -------------------------- *)

\* C29: the pollers started are as many as the Tasks in the store, each
\* started poller belongs to a submission whose Task is in the store at a
\* position of its own, and a step starts a poller exactly when it appends a
\* Task.
C29_OnePollerPerTask ==
  /\ [](/\ Cardinality({i \in Submissions : poll[i].pc # "none"}) = Len(texts)
        /\ \A i \in Submissions : poll[i].pc # "none" <=> Pushed(i)
        /\ \A i, j \in Submissions :
             (i # j /\ Pushed(i) /\ Pushed(j)) => req[i].ref # req[j].ref)
  /\ [][(Len(texts') = Len(texts) + 1)
          <=> (\E i \in Submissions :
                 poll[i].pc = "none" /\ poll'[i].pc # "none")]_vars

\* Two submissions with the same text have two Tasks in the store and two
\* pollers.
C29_Witness ==
  /\ Len(texts) = 2
  /\ texts[1].text = texts[2].text
  /\ \A i \in Submissions : poll[i].pc # "none" /\ Pushed(i)

====
